---- MODULE Spec2Model ----
(***************************************************************************)
(* A model of maya_mock: the maya.cmds command layer (cmds/session.py),    *)
(* the naming helpers (base/naming.py) and the scene-graph session they    *)
(* drive (nodes in a hierarchy, ports owned by nodes, directed connections *)
(* between ports, and the current selection).                              *)
(*                                                                         *)
(* Strings are sequences of one-character strings, so that joins, splits   *)
(* and the matching of patterns against dag paths are computed.            *)
(***************************************************************************)
EXTENDS Integers, Sequences, FiniteSets, TLC

\* ------------------------------------------------------------------ bounds
\* How many nodes one behaviour creates in total (ids are never reused).
MaxNodes == 3
\* How many nodes a behaviour of the graph specification creates in total.
MaxGraphNodes == 2
\* How many ports one behaviour creates in total.
MaxPorts == 2
\* How many connections the store may hold before connectAttr is no longer called.
MaxConnections == 2

\* How long the strings are that the naming helpers are called with.
MaxLen == 4
\* How many names the dag paths have that the patterns are matched against.
MaxDepth == 3

\* ------------------------------------------------------------------ strings
\* Python's None, as an argument or a result.
None == <<"None">>

\* Python's `not x` on an optional string: None and the empty string are false.
Falsy(x) == x = None \/ x = <<>>

\* What a lookup of a connection returns when there is none.
NoConnection == <<0, 0>>

\* What stands for the path of a node whose path cannot be computed.
RecursionError == <<"RecursionError">>

\* The characters of the model, in code point order (the order of Python's str <).
CharOrder == <<"*", ".", "1", "2", "3", "4", "5", "_", "a", "b", "f", "m", "n", "o", "r", "s", "t", "x", "y", "|">>

Ord(c) == CHOOSE i \in 1..Len(CharOrder) : CharOrder[i] = c

\* What the regex class \w accepts.
IsWordChar(c) == c \notin {"*", ".", "|"}

\* Python's str < on two strings.
RECURSIVE StrLess(_, _)
StrLess(a, b) ==
    IF b = <<>> THEN FALSE
    ELSE IF a = <<>> THEN TRUE
    ELSE IF Head(a) = Head(b) THEN StrLess(Tail(a), Tail(b))
    ELSE Ord(Head(a)) < Ord(Head(b))

\* The decimal digits of a small positive number.
DigitOf(k) == <<"1", "2", "3", "4", "5">>[k]

\* ------------------------------------------------------------------ collections
Range(q) == {q[i] : i \in 1..Len(q)}

Remove(q, x) == SelectSeq(q, LAMBDA y : y # x)

Min(S) == CHOOSE x \in S : \A y \in S : x <= y

\* F(v), with v computed once.
Bind(v, F(_)) == CHOOSE r \in {F(x) : x \in {v}} : TRUE

\* A collection that may hold an element several times: the number of copies of
\* each element it holds.
NoCopies == [x \in {} |-> 0]

Copies(c, x) == IF x \in DOMAIN c THEN c[x] ELSE 0

WithCopy(c, x) == [y \in DOMAIN c \cup {x} |-> IF y = x THEN Copies(c, x) + 1 ELSE c[y]]

WithoutCopy(c, x) ==
    [y \in {z \in DOMAIN c : z # x \/ c[z] > 1} |-> IF y = x THEN c[y] - 1 ELSE c[y]]

RECURSIVE SumOver(_, _)
SumOver(c, S) == IF S = {} THEN 0 ELSE LET x == CHOOSE y \in S : TRUE IN c[x] + SumOver(c, S \ {x})

Size(c) == SumOver(c, DOMAIN c)

\* ------------------------------------------------------------------ naming.py
\* The reserved node names.
BLACKLISTED_NODE_NAMES == {<<"f">>}

\* The regex atoms pattern_to_regex builds a regex from.
ReAny == "[\\w]*"
RePipe == "\\|"
RePrefix == "(^|.*\\|)"
ReStart == "^"
ReEnd == "$"
ReAll == ".*"

\* pattern.replace("*", r"[\w]*")
ReplaceStar(p) == [i \in 1..Len(p) |-> IF p[i] = "*" THEN ReAny ELSE p[i]]

\* pattern.replace("|", r"\|")
ReplacePipe(p) == [i \in 1..Len(p) |-> IF p[i] = "|" THEN RePipe ELSE p[i]]

\* str.startswith("|") on the regex text: its first character is the first
\* character of its first atom, and an escaped pipe starts with a backslash.
StartsWithPipe(p) == p # <<>> /\ Head(p) = "|"

\* pattern_to_regex without the closing anchor: the regex may match a prefix.
pattern_to_regex_open(pattern) ==
    IF pattern = None THEN <<ReAll>>
    ELSE LET p1 == ReplaceStar(pattern)
             p2 == ReplacePipe(p1)
         IN  IF StartsWithPipe(p2) THEN <<ReStart>> \o p2 ELSE <<RePrefix>> \o p2

\* naming.pattern_to_regex: the regex of a pattern, as its sequence of atoms.
pattern_to_regex(pattern) ==
    IF pattern = None THEN <<ReAll>>
    ELSE LET p1 == ReplaceStar(pattern)
             p2 == ReplacePipe(p1)
             p3 == IF StartsWithPipe(p2) THEN <<ReStart>> \o p2 ELSE <<RePrefix>> \o p2
         IN  p3 \o <<ReEnd>>

\* re.match(regex, s): whether the atoms r[i..] match s from position j on.
RECURSIVE ReMatchFrom(_, _, _, _)
ReMatchFrom(r, i, s, j) ==
    IF i > Len(r) THEN TRUE
    ELSE LET t == r[i] IN
         IF t = ReAll THEN TRUE
         ELSE IF t = ReStart THEN j = 1 /\ ReMatchFrom(r, i + 1, s, j)
         ELSE IF t = ReEnd THEN j = Len(s) + 1 /\ ReMatchFrom(r, i + 1, s, j)
         ELSE IF t = RePrefix THEN
              \/ j = 1 /\ ReMatchFrom(r, i + 1, s, j)
              \/ \E k \in j..Len(s) : s[k] = "|" /\ ReMatchFrom(r, i + 1, s, k + 1)
         ELSE IF t = ReAny THEN
              \E k \in j..(Len(s) + 1) :
                  /\ \A m \in j..(k - 1) : IsWordChar(s[m])
                  /\ ReMatchFrom(r, i + 1, s, k)
         ELSE IF t = RePipe THEN
              j <= Len(s) /\ s[j] = "|" /\ ReMatchFrom(r, i + 1, s, j + 1)
         ELSE IF t = "." THEN
              j <= Len(s) /\ ReMatchFrom(r, i + 1, s, j + 1)
         ELSE j <= Len(s) /\ s[j] = t /\ ReMatchFrom(r, i + 1, s, j + 1)

ReMatch(r, s) == ReMatchFrom(r, 1, s, 1)

\* What the regex class [0-9] accepts.
Digits == {"0", "1", "2", "3", "4", "5", "6", "7", "8", "9"}

\* naming.conform_node_name: _REGEX_INVALID_NODE_NAME_CHARS.sub("", name). The
\* regex is `^([0-9])|(?!A-Za-z0-9:_)`: its first alternative matches a digit at
\* the start of the name; its second is a lookahead for the literal text
\* "A-Za-z0-9:_" and matches the empty string only, so that replacing its
\* matches by "" removes nothing.
conform_node_name(name) ==
    IF name # <<>> /\ Head(name) \in Digits THEN Tail(name) ELSE name

\* naming.is_valid_node_name: `name and name not in BLACKLISTED_NODE_NAMES`.
is_valid_node_name(name) ==
    name # None /\ name # <<>> /\ name \notin BLACKLISTED_NODE_NAMES

\* ------------------------------------------------------------------ state
VARIABLES
    nodes,        \* session.nodes: the ids of the stored nodes, in insertion order
    nodeName,     \* node.name, by node id (every node ever created)
    nodeType,     \* node.type, by node id
    nodeParent,   \* node.parent, by node id (0: no parent)
    ports,        \* session.ports: the ids of the stored ports, in insertion order
    portNode,     \* port.node, by port id
    portName,     \* port.name, by port id
    portShort,    \* port.short_name, by port id (None: no short name)
    connections,  \* session.connections: the <<src port, dst port>> edges, with their numbers of copies
    selection,    \* session.selection: a list of node ids
    text,         \* the string a naming helper is called with
    subject,      \* the dag path a compiled pattern is matched against
    outcome,      \* the last call of a naming helper and what it returned
    last          \* the last command: its name, how it ended, how many connections
                  \* it removed and how many stored nodes it left without their parent

vars == <<nodes, nodeName, nodeType, nodeParent, ports, portNode, portName, portShort, connections, selection, text, subject, outcome, last>>

\* The session as one value, for the operators below.
Session == [nodes |-> nodes, nodeName |-> nodeName, nodeType |-> nodeType, nodeParent |-> nodeParent, ports |-> ports, portNode |-> portNode, portName |-> portName, portShort |-> portShort, connections |-> connections, selection |-> selection]

\* MockedSession(): the empty session.
EmptySession == [nodes |-> <<>>, nodeName |-> <<>>, nodeType |-> <<>>, nodeParent |-> <<>>, ports |-> <<>>, portNode |-> <<>>, portName |-> <<>>, portShort |-> <<>>, connections |-> NoCopies, selection |-> <<>>]

\* A call that returns `ret` and leaves the session `s`.
Ok(s, ret) == [s |-> s, err |-> "none", ret |-> ret]

\* A call that raises `e`, the session being `s` at that point.
Raise(s, e) == [s |-> s, err |-> e, ret |-> None]

\* ------------------------------------------------------------------ nodes
\* node.children: the stored nodes whose parent is `p` (the root nodes for p = 0).
Children(s, p) == {n \in Range(s.nodes) : s.nodeParent[n] = p}

\* node.dagpath: the names from the root ancestor down to the node, each led by
\* the hierarchy separator. The recursion over the parents does not end on a
\* node that is its own ancestor: Python raises RecursionError.
RECURSIVE DagpathFrom(_, _, _)
DagpathFrom(s, n, fuel) ==
    IF fuel = 0 THEN RecursionError
    ELSE IF s.nodeParent[n] = 0 THEN <<"|">> \o s.nodeName[n]
    ELSE Bind(DagpathFrom(s, s.nodeParent[n], fuel - 1), LAMBDA up :
            IF up = RecursionError THEN up ELSE up \o <<"|">> \o s.nodeName[n])

dagpath(s, n) == DagpathFrom(s, n, Len(s.nodeName))

\* Whether the node's dag path matches the pattern.
node_match(s, n, pattern) == ReMatch(pattern_to_regex(pattern), dagpath(s, n))

\* session.iter_node_by_match: the stored nodes matching the pattern, in store
\* order, as far as the paths can be computed.
iter_node_by_match(s, pattern) ==
    LET bad == {i \in 1..Len(s.nodes) : dagpath(s, s.nodes[i]) = RecursionError}
        upto == IF bad = {} THEN Len(s.nodes) ELSE Min(bad) - 1
        found == SelectSeq(SubSeq(s.nodes, 1, upto), LAMBDA n : node_match(s, n, pattern))
    IN  [found |-> found, err |-> IF bad = {} THEN "none" ELSE "RecursionError"]

\* session.get_node_by_match: the first stored node matching the pattern, 0 if none.
get_node_by_match(s, pattern) ==
    Bind(iter_node_by_match(s, pattern), LAMBDA it :
        IF it.found # <<>> THEN Ok(s, Head(it.found))
        ELSE IF it.err # "none" THEN Raise(s, it.err)
        ELSE Ok(s, 0))

\* session.get_node_by_name: the first stored node of that exact name.
get_node_by_name(s, name) ==
    LET found == SelectSeq(s.nodes, LAMBDA n : s.nodeName[n] = name)
    IN  IF found = <<>> THEN Raise(s, "NotFound") ELSE Ok(s, Head(found))

\* The default name of a node: its type and the first free number among the siblings.
DefaultName(s, type, parent) ==
    LET taken == {s.nodeName[n] : n \in Children(s, parent)}
        k == Min({i \in 1..(Cardinality(taken) + 1) : type \o <<DigitOf(i)>> \notin taken})
    IN  type \o <<DigitOf(k)>>

\* session.create_node
create_node(s, type, name, parent) ==
    IF name # None /\ ~is_valid_node_name(name) THEN Raise(s, "InvalidName")
    ELSE LET nm == IF name = None THEN DefaultName(s, type, parent) ELSE name
             id == Len(s.nodeName) + 1
         IN  IF \E n \in Children(s, parent) : s.nodeName[n] = nm
             THEN Raise(s, "NameCollision")
             ELSE Ok([s EXCEPT !.nodes = Append(@, id),
                               !.nodeName = Append(@, nm),
                               !.nodeType = Append(@, type),
                               !.nodeParent = Append(@, parent)], id)

\* node.set_parent
set_parent(s, node, parent) ==
    IF \E n \in Children(s, parent) \ {node} : s.nodeName[n] = s.nodeName[node]
    THEN Raise(s, "NameCollision")
    ELSE Ok([s EXCEPT !.nodeParent[node] = parent], None)

\* ------------------------------------------------------------------ ports and connections
\* session.ports_by_node[node]: the stored ports of a node, in store order.
ports_by_node(s, node) == SelectSeq(s.ports, LAMBDA p : s.portNode[p] = node)

\* session.create_port
create_port(s, node, name, short_name) ==
    LET own == Range(ports_by_node(s, node))
        id == Len(s.portName) + 1
    IN  IF \/ \E p \in own : s.portName[p] = name
           \/ short_name # None /\ \E p \in own : s.portShort[p] = short_name
        THEN Raise(s, "NameCollision")
        ELSE Ok([s EXCEPT !.ports = Append(@, id),
                          !.portNode = Append(@, node),
                          !.portName = Append(@, name),
                          !.portShort = Append(@, short_name)], id)

\* session.get_connection_by_ports: the stored connection src -> dst, if any.
get_connection_by_ports(s, src, dst) ==
    IF Copies(s.connections, <<src, dst>>) > 0 THEN <<src, dst>> ELSE NoConnection

\* session.get_port_input_connections: the connections whose destination is the port.
get_port_input_connections(s, port) == {c \in DOMAIN s.connections : c[2] = port}

\* session.get_port_output_connections: the connections whose source is the port.
get_port_output_connections(s, port) == {c \in DOMAIN s.connections : c[1] = port}

\* session.create_connection
create_connection(s, src, dst) ==
    IF get_connection_by_ports(s, src, dst) # NoConnection THEN Raise(s, "DuplicateConnection")
    ELSE Ok([s EXCEPT !.connections = WithCopy(@, <<src, dst>>)], <<src, dst>>)

\* session.remove_connection
remove_connection(s, connection) ==
    Ok([s EXCEPT !.connections = WithoutCopy(@, connection)], None)

\* session.remove_port: the port goes, and every connection it is an endpoint of.
remove_port(s, port) ==
    IF port \notin Range(s.ports) THEN Raise(s, "KeyError")
    ELSE LET keep == {c \in DOMAIN s.connections : c[1] # port /\ c[2] # port}
         IN  Ok([s EXCEPT !.ports = Remove(@, port),
                          !.connections = [c \in keep |-> s.connections[c]]], None)

\* session.remove_node: the node leaves its parent and the store, its ports are
\* removed one by one, and its children become root nodes.
RECURSIVE RemovePorts(_, _)
RemovePorts(s, ps) ==
    IF ps = <<>> THEN s
    ELSE Bind(remove_port(s, Head(ps)).s, LAMBDA s1 : RemovePorts(s1, Tail(ps)))

remove_node(s, node) ==
    Bind(RemovePorts(s, ports_by_node(s, node)), LAMBDA s1 :
        Ok([s1 EXCEPT !.nodes = Remove(@, node),
                      !.nodeParent = [n \in DOMAIN @ |->
                                        IF n = node \/ @[n] = node THEN 0 ELSE @[n]]], None))

\* session.get_port_by_match: "<node pattern>.<port name>" is split at its last
\* separator, the node resolved by pattern and the port by its name or short name.
LastDot(q) == LET dots == {i \in 1..Len(q) : q[i] = "."}
              IN  IF dots = {} THEN 0 ELSE CHOOSE i \in dots : \A j \in dots : j <= i

get_port_by_match(s, query) ==
    LET d == LastDot(query) IN
    IF d = 0 THEN Ok(s, 0)
    ELSE Bind(get_node_by_match(s, SubSeq(query, 1, d - 1)), LAMBDA nr :
            LET attr == SubSeq(query, d + 1, Len(query))
                found == SelectSeq(ports_by_node(s, nr.ret),
                                LAMBDA p : s.portName[p] = attr \/ s.portShort[p] = attr)
            IN  IF nr.err # "none" THEN nr
                ELSE IF nr.ret = 0 THEN Ok(s, 0)
                ELSE IF found = <<>> THEN Ok(s, 0) ELSE Ok(s, Head(found)))

\* ------------------------------------------------------------------ cmds/session.py
\* node.__melobject__(): the name of the node; `qualified` says whether a name
\* that other stored nodes bear too is given as the dag path instead.
melobject(s, n, qualified) ==
    IF qualified /\ \E m \in Range(s.nodes) \ {n} : s.nodeName[m] = s.nodeName[n]
    THEN dagpath(s, n)
    ELSE s.nodeName[n]

\* MockedCmdsSession.select
select(s, names) ==
    Ok([s EXCEPT !.selection = SelectSeq(s.nodes, LAMBDA n : s.nodeName[n] \in Range(names))], None)

\* createNode not handing the parent on to the session: the node is made a root.
createNode_unparented(s, type, name, parent, skipSelect, qualified) ==
    Bind(IF parent # None /\ parent # <<>> THEN get_node_by_match(s, parent) ELSE Ok(s, 0), LAMBDA pr :
        IF pr.err # "none" THEN pr
        ELSE Bind(create_node(s, type, name, 0), LAMBDA cr :
            IF cr.err # "none" THEN cr
            ELSE Bind(melobject(cr.s, cr.ret, qualified), LAMBDA nm :
                IF ~skipSelect THEN Ok(select(cr.s, <<nm>>).s, nm)
                ELSE Ok(cr.s, nm))))

\* MockedCmdsSession.createNode
createNode(s, type, name, parent, skipSelect, qualified) ==
    Bind(IF parent # None /\ parent # <<>> THEN get_node_by_match(s, parent) ELSE Ok(s, 0), LAMBDA pr :
        IF pr.err # "none" THEN pr
        ELSE Bind(create_node(s, type, name, pr.ret), LAMBDA cr :
            IF cr.err # "none" THEN cr
            ELSE Bind(melobject(cr.s, cr.ret, qualified), LAMBDA nm :
                IF ~skipSelect THEN Ok(select(cr.s, <<nm>>).s, nm)
                ELSE Ok(cr.s, nm))))

\* addAttr going on to the next object when a port cannot be created.
RECURSIVE addAttr_swallow(_, _, _, _)
addAttr_swallow(s, objects, longName, shortName) ==
    IF objects = <<>> THEN Ok(s, None)
    ELSE Bind(get_node_by_match(s, Head(objects)), LAMBDA nr :
            IF nr.err # "none" THEN nr
            ELSE Bind(create_port(s, nr.ret, IF ~Falsy(longName) THEN longName ELSE shortName, shortName), LAMBDA pr :
                addAttr_swallow(pr.s, Tail(objects), longName, shortName)))

\* MockedCmdsSession.addAttr
RECURSIVE AddAttrLoop(_, _, _, _)
AddAttrLoop(s, objects, name, shortName) ==
    IF objects = <<>> THEN Ok(s, None)
    ELSE Bind(get_node_by_match(s, Head(objects)), LAMBDA nr :
            IF nr.err # "none" THEN nr
            ELSE Bind(create_port(s, nr.ret, name, shortName), LAMBDA pr :
                IF pr.err # "none" THEN pr
                ELSE AddAttrLoop(pr.s, Tail(objects), name, shortName)))

addAttr(s, objects, longName, shortName) ==
    IF Falsy(longName) /\ Falsy(shortName) THEN Raise(s, "RuntimeError: needs a name")
    ELSE AddAttrLoop(s, objects, IF ~Falsy(longName) THEN longName ELSE shortName, shortName)

\* MockedCmdsSession._conform_connection_ports
conform_connection_ports(s, src, dst) ==
    Bind(get_port_by_match(s, src), LAMBDA sr :
        IF sr.err # "none" THEN sr
        ELSE IF sr.ret = 0 THEN Raise(s, "RuntimeError: source not found")
        ELSE Bind(get_port_by_match(s, dst), LAMBDA dr :
            IF dr.err # "none" THEN dr
            ELSE IF dr.ret = 0 THEN Raise(s, "RuntimeError: destination not found")
            ELSE Ok(s, <<sr.ret, dr.ret>>)))

\* connectAttr without the lookup of an existing connection: the edge is recorded.
connectAttr_unchecked(s, src, dst) ==
    Bind(conform_connection_ports(s, src, dst), LAMBDA cp :
        IF cp.err # "none" THEN cp
        ELSE Ok([s EXCEPT !.connections = WithCopy(@, <<cp.ret[1], cp.ret[2]>>)], None))

\* MockedCmdsSession.connectAttr
connectAttr(s, src, dst) ==
    Bind(conform_connection_ports(s, src, dst), LAMBDA cp :
        IF cp.err # "none" THEN cp
        ELSE IF get_connection_by_ports(s, cp.ret[1], cp.ret[2]) # NoConnection
             THEN Raise(s, "RuntimeError: already connected")
        ELSE Bind(create_connection(s, cp.ret[1], cp.ret[2]), LAMBDA cr :
             IF cr.err # "none" THEN cr ELSE Ok(cr.s, None)))

\* disconnectAttr looking the connection up in the opposite direction.
disconnectAttr_reversed(s, src, dst) ==
    Bind(conform_connection_ports(s, src, dst), LAMBDA cp :
        IF cp.err # "none" THEN cp
        ELSE LET connection == get_connection_by_ports(s, cp.ret[2], cp.ret[1])
             IN  IF connection = NoConnection
                 THEN Raise(s, "RuntimeError: no connection to disconnect")
                 ELSE remove_connection(s, connection))

\* MockedCmdsSession.disconnectAttr
disconnectAttr(s, src, dst) ==
    Bind(conform_connection_ports(s, src, dst), LAMBDA cp :
        IF cp.err # "none" THEN cp
        ELSE LET connection == get_connection_by_ports(s, cp.ret[1], cp.ret[2])
             IN  IF connection = NoConnection
                 THEN Raise(s, "RuntimeError: no connection to disconnect")
                 ELSE remove_connection(s, connection))

\* delete removing the children of the node along with it.
delete_with_children(s, name) ==
    Bind(get_node_by_name(s, name), LAMBDA nr :
        IF nr.err # "none" THEN nr
        ELSE Bind(remove_node(s, nr.ret), LAMBDA rr :
            Ok([rr.s EXCEPT !.nodes = SelectSeq(@, LAMBDA n : s.nodeParent[n] # nr.ret)], None)))

\* delete taking the node out of session.nodes itself, its ports left behind.
delete_node_only(s, name) ==
    Bind(get_node_by_name(s, name), LAMBDA nr :
        IF nr.err # "none" THEN nr ELSE Ok([s EXCEPT !.nodes = Remove(@, nr.ret)], None))

\* MockedCmdsSession.delete
delete(s, name) ==
    Bind(get_node_by_name(s, name), LAMBDA nr :
        IF nr.err # "none" THEN nr ELSE remove_node(s, nr.ret))

\* deleteAttr taking a matched port out of session.ports itself, its connections
\* left behind.
RECURSIVE deleteAttr_port_only(_, _, _)
deleteAttr_port_only(s, queries, attribute) ==
    IF queries = <<>> THEN Ok(s, None)
    ELSE Bind(get_port_by_match(s, Head(queries)), LAMBDA pr :
            IF pr.err # "none" THEN pr
            ELSE IF pr.ret = 0 THEN Raise(s, "TypeError")
            ELSE deleteAttr_port_only([s EXCEPT !.ports = Remove(@, pr.ret)], Tail(queries), attribute))

\* MockedCmdsSession.deleteAttr
RECURSIVE deleteAttr(_, _, _)
deleteAttr(s, queries, attribute) ==
    IF queries = <<>> THEN Ok(s, None)
    ELSE Bind(get_port_by_match(s, Head(queries)), LAMBDA pr :
            IF pr.err # "none" THEN pr
            ELSE IF pr.ret # 0
            THEN Bind(remove_port(s, pr.ret).s, LAMBDA s1 : deleteAttr(s1, Tail(queries), attribute))
            ELSE IF attribute = None THEN Raise(s, "TypeError")
            ELSE Bind(get_port_by_match(s, Head(queries) \o <<".">> \o attribute), LAMBDA qr :
                IF qr.err # "none" THEN qr
                ELSE Bind(remove_port(s, qr.ret), LAMBDA rr :
                    IF rr.err # "none" THEN rr
                    ELSE deleteAttr(rr.s, Tail(queries), attribute))))

\* MockedCmdsSession.parent
RECURSIVE LookupNodes(_, _, _)
LookupNodes(s, names, acc) ==
    IF names = <<>> THEN Ok(s, acc)
    ELSE Bind(get_node_by_name(s, Head(names)), LAMBDA nr :
            IF nr.err # "none" THEN nr ELSE LookupNodes(s, Tail(names), Append(acc, nr.ret)))

RECURSIVE SetParents(_, _, _)
SetParents(s, children, parentNode) ==
    IF children = <<>> THEN Ok(s, None)
    ELSE Bind(set_parent(s, Head(children), parentNode), LAMBDA sr :
            IF sr.err # "none" THEN sr ELSE SetParents(sr.s, Tail(children), parentNode))

parent(s, objects, world) ==
    IF ~world /\ objects = <<>> THEN Raise(s, "IndexError")
    ELSE LET children == IF world THEN objects ELSE SubSeq(objects, 1, Len(objects) - 1)
             parentName == IF world THEN None ELSE objects[Len(objects)]
         IN  Bind(LookupNodes(s, children, <<>>), LAMBDA cr :
                 IF cr.err # "none" THEN cr
                 ELSE Bind(get_node_by_name(s, parentName), LAMBDA pr :
                     IF pr.err # "none" THEN pr
                     ELSE SetParents(s, cr.ret, pr.ret)))

\* sorted(nodes): the nodes by type, then name; the sort is stable.
NodeLess(s, a, b) ==
    \/ StrLess(s.nodeType[a], s.nodeType[b])
    \/ s.nodeType[a] = s.nodeType[b] /\ StrLess(s.nodeName[a], s.nodeName[b])

RECURSIVE Insert(_, _, _)
Insert(s, q, n) ==
    IF q = <<>> THEN <<n>>
    ELSE IF NodeLess(s, n, Head(q)) THEN <<n>> \o q
    ELSE <<Head(q)>> \o Insert(s, Tail(q), n)

RECURSIVE sorted(_, _)
sorted(s, q) == IF q = <<>> THEN <<>> ELSE Insert(s, sorted(s, SubSeq(q, 1, Len(q) - 1)), q[Len(q)])

\* MockedCmdsSession.ls
ls(s, objects, long, sel, type, qualified) ==
    LET pattern == IF objects = <<>> THEN None ELSE Head(objects)
        it == iter_node_by_match(s, pattern)
        keep(n) == /\ sel => n \in Range(s.selection)
                   /\ ~Falsy(type) => s.nodeType[n] = type
        found == sorted(s, SelectSeq(it.found, keep))
    IN  IF it.err # "none" THEN Raise(s, it.err)
        ELSE Ok(s, [i \in 1..Len(found) |->
                      IF long THEN dagpath(s, found[i]) ELSE melobject(s, found[i], qualified)])

\* ------------------------------------------------------------------ inputs
TRANSFORM == <<"t", "r", "a", "n", "s", "f", "o", "r", "m">>

Types == {TRANSFORM}

\* The node names the commands are called with.
NodeNames == {<<"a">>, <<"b">>}

\* The names createNode is given: the valid names, a reserved one, and none.
NameInputs == NodeNames \cup BLACKLISTED_NODE_NAMES \cup {None}

\* The parents createNode is given: none, a name, and a path.
ParentInputs == NodeNames \cup {None, <<"a", "|", "b">>}

PortNames == {<<"x">>, <<"y">>}

ShortNames == {<<"s">>}

\* The port addresses the commands are called with.
PortQueries == {<<"a", ".", "x">>, <<"a", ".", "y">>, <<"b", ".", "x">>}

\* The same, with an address by short name.
ShortQueries == {<<"a", ".", "x">>, <<"a", ".", "s">>, <<"b", ".", "y">>}

\* The lists of at most two elements of a set.
Lists2(S) == {<<>>} \cup {<<x>> : x \in S} \cup {<<x, y>> : x \in S, y \in S}

\* The lists of queries deleteAttr is called with: one port, one node (to go with
\* the attribute flag), or two ports.
DeleteQueries(queries) ==
    {<<q>> : q \in queries \cup NodeNames} \cup {<<q, r>> : q \in queries, r \in {<<"b", ".", "x">>}}

\* ------------------------------------------------------------------ actions
\* No naming helper has been called.
NoOutcome == [op |-> "none", ret |-> None]

\* MockedSession(): the empty session.
InitSession ==
    /\ nodes = <<>> /\ nodeName = <<>> /\ nodeType = <<>> /\ nodeParent = <<>>
    /\ ports = <<>> /\ portNode = <<>> /\ portName = <<>> /\ portShort = <<>>
    /\ connections = NoCopies
    /\ selection = <<>>

Init ==
    /\ InitSession
    /\ text = <<>> /\ subject = <<>> /\ outcome = NoOutcome
    /\ last = [op |-> "init", err |-> "none", dropped |-> 0, orphaned |-> 0]

\* The session after a command.
Becomes(s) ==
    /\ nodes' = s.nodes /\ nodeName' = s.nodeName
    /\ nodeType' = s.nodeType /\ nodeParent' = s.nodeParent
    /\ ports' = s.ports /\ portNode' = s.portNode
    /\ portName' = s.portName /\ portShort' = s.portShort
    /\ connections' = s.connections
    /\ selection' = s.selection
    /\ UNCHANGED <<text, subject, outcome>>

\* The record of a command that ended as `r`.
Called(op, r) ==
    [op |-> op, err |-> r.err,
     dropped |-> IF Size(r.s.connections) < Size(connections)
                 THEN Size(connections) - Size(r.s.connections) ELSE 0,
     orphaned |-> Cardinality({n \in Range(nodes) \cap Range(r.s.nodes) : nodeParent[n] # 0 /\ r.s.nodeParent[n] = 0})]

\* createNode, called with a name, a parent and a skipSelect flag of the given sets,
\* as long as fewer than `limit` nodes have been created.
CreateNodeWith(limit, names, parents, skips) ==
    \E type \in Types, name \in names, p \in parents, skipSelect \in skips, qualified \in BOOLEAN :
        \E r \in {createNode(Session, type, name, p, skipSelect, qualified)} :
        /\ Len(nodeName) < limit
        /\ Becomes(r.s)
        /\ last' = Called("createNode", r)

\* addAttr, called on objects that resolve to a node.
AddAttrWith(longNames, shortNames) ==
    \E objects \in Lists2(NodeNames), longName \in longNames, shortName \in shortNames :
        \E r \in {addAttr(Session, objects, longName, shortName)} :
        /\ Len(portName) + Len(objects) <= MaxPorts
        /\ \A i \in 1..Len(objects) :
              LET nr == get_node_by_match(Session, objects[i]) IN nr.err # "none" \/ nr.ret # 0
        /\ Becomes(r.s)
        /\ last' = Called("addAttr", r)

DeleteAttrWith(queries) ==
    \E qs \in DeleteQueries(queries), attribute \in {<<"x">>, None} :
        \E r \in {deleteAttr(Session, qs, attribute)} :
        /\ Becomes(r.s)
        /\ last' = Called("deleteAttr", r)

ConnectAttr ==
    \E src \in PortQueries, dst \in PortQueries :
        \E r \in {connectAttr(Session, src, dst)} :
        /\ Size(connections) < MaxConnections
        /\ Becomes(r.s)
        /\ last' = Called("connectAttr", r)

DisconnectAttr ==
    \E src \in PortQueries, dst \in PortQueries :
        \E r \in {disconnectAttr(Session, src, dst)} :
        /\ Becomes(r.s)
        /\ last' = Called("disconnectAttr", r)

Delete ==
    \E name \in NodeNames :
        \E r \in {delete(Session, name)} :
        /\ Becomes(r.s)
        /\ last' = Called("delete", r)

Parent ==
    \E objects \in Lists2(NodeNames), world \in BOOLEAN :
        \E r \in {parent(Session, objects, world)} :
        /\ Becomes(r.s)
        /\ last' = Called("parent", r)

Select ==
    \E names \in Lists2(NodeNames) :
        \E r \in {select(Session, names)} :
        /\ Becomes(r.s)
        /\ last' = Called("select", r)

\* The hierarchy: nodes are created, reparented, deleted and selected.
CreateNode == CreateNodeWith(MaxNodes, NameInputs, ParentInputs, BOOLEAN)

Next ==
    \/ CreateNode
    \/ Parent
    \/ Delete
    \/ Select

Spec == Init /\ [][Next]_vars

\* The graph: few nodes, their ports and the connections between the ports.
GraphCreateNode == CreateNodeWith(MaxGraphNodes, NodeNames, {None, <<"a">>}, {TRUE})

GraphAddAttr == AddAttrWith(PortNames, {None})

GraphDeleteAttr == DeleteAttrWith(PortQueries)

NextGraph ==
    \/ GraphCreateNode
    \/ GraphAddAttr
    \/ ConnectAttr
    \/ DisconnectAttr
    \/ GraphDeleteAttr
    \/ Delete

SpecGraph == Init /\ [][NextGraph]_vars

\* The ports: attributes are added under long and short names, and deleted.
PortsCreateNode == CreateNodeWith(MaxGraphNodes, NodeNames, {None}, {TRUE})

AddAttr == AddAttrWith(PortNames \cup {None, <<>>}, ShortNames \cup {None})

DeleteAttr == DeleteAttrWith(ShortQueries)

NextPorts ==
    \/ PortsCreateNode
    \/ AddAttr
    \/ DeleteAttr

SpecPorts == Init /\ [][NextPorts]_vars

\* ------------------------------------------------------------------ naming
\* The characters of the strings: two letters, a digit, the hierarchy separator
\* and the wildcard.
Alphabet == {"a", "b", "1", "|", "*"}

\* The strings the naming helpers are called with, as names or as patterns.
Texts == UNION {[1..n -> Alphabet] : n \in 0..MaxLen} \cup BLACKLISTED_NODE_NAMES

\* Names of nodes; is_valid_node_name accepts each of them.
SegmentNames == {<<"a">>, <<"b">>, <<"a", "b">>, <<"b", "|">>}

\* node.dagpath of the last of a chain of nodes of these names, the first a root.
RECURSIVE DagpathOf(_)
DagpathOf(names) ==
    IF names = <<>> THEN <<>> ELSE <<"|">> \o Head(names) \o DagpathOf(Tail(names))

\* The dag paths of nodes that have fewer than MaxDepth ancestors.
Paths == {DagpathOf(names) : names \in UNION {[1..n -> SegmentNames] : n \in 1..MaxDepth}}

\* A string to call the naming helpers with, and the dag path of a node to match
\* it against; the session is not used.
InitNaming ==
    /\ InitSession
    /\ text \in Texts /\ subject \in Paths /\ outcome = NoOutcome
    /\ last = [op |-> "init", err |-> "none", dropped |-> 0, orphaned |-> 0]

ConformNodeName ==
    /\ outcome' = [op |-> "conform_node_name", ret |-> conform_node_name(text)]
    /\ UNCHANGED <<nodes, nodeName, nodeType, nodeParent, ports, portNode, portName, portShort, connections, selection, text, subject, last>>

IsValidNodeName ==
    /\ outcome' = [op |-> "is_valid_node_name", ret |-> is_valid_node_name(text)]
    /\ UNCHANGED <<nodes, nodeName, nodeType, nodeParent, ports, portNode, portName, portShort, connections, selection, text, subject, last>>

\* node.match(pattern), on the node of the dag path.
Match ==
    /\ outcome' = [op |-> "match", ret |-> ReMatch(pattern_to_regex(text), subject)]
    /\ UNCHANGED <<nodes, nodeName, nodeType, nodeParent, ports, portNode, portName, portShort, connections, selection, text, subject, last>>

NextNaming ==
    \/ ConformNodeName
    \/ IsValidNodeName
    \/ Match

SpecNaming == InitNaming /\ [][NextNaming]_vars

\* ------------------------------------------------------------------ connections
\* The ports two addresses resolve to, when both resolve.
Resolved(src, dst) == conform_connection_ports(Session, src, dst)

\* C1: in every reachable state the connection store holds at most one
\* connection for any ordered (source port, destination port) pair.
C1_AtMostOneConnectionPerPair ==
    \A c \in DOMAIN connections : connections[c] <= 1

\* Two ports are connected in both directions, the last command being a connectAttr.
C1_Witness ==
    /\ last.op = "connectAttr" /\ last.err = "none"
    /\ \E p \in Range(ports), q \in Range(ports) :
          p # q /\ Copies(connections, <<p, q>>) = 1 /\ Copies(connections, <<q, p>>) = 1

\* C2: connectAttr(src, dst) on two existing ports with a connection src -> dst
\* raises the duplicate-connection error and leaves the session as it was.
C2_DuplicateConnectRaises ==
    \A src \in PortQueries, dst \in PortQueries :
        (Resolved(src, dst).err = "none" /\ Copies(connections, Resolved(src, dst).ret) > 0)
        => connectAttr(Session, src, dst) = Raise(Session, "RuntimeError: already connected")

\* A connectAttr has just been refused as a duplicate.
C2_Witness ==
    /\ last.op = "connectAttr" /\ last.err = "RuntimeError: already connected"
    /\ connections # NoCopies

\* C3: disconnectAttr(src, dst) on two existing ports raises the missing-connection
\* error and changes nothing when there is no connection src -> dst, whatever
\* there is from dst to src; when there is one, it removes that connection and
\* no other, and the lookup of the pair then finds none.
C3_DisconnectRemovesOrRaises ==
    \A src \in PortQueries, dst \in PortQueries :
        Resolved(src, dst).err = "none" =>
            LET pair == Resolved(src, dst).ret
                r == disconnectAttr(Session, src, dst)
            IN  IF Copies(connections, pair) = 0
                THEN r = Raise(Session, "RuntimeError: no connection to disconnect")
                ELSE /\ r.err = "none"
                     /\ get_connection_by_ports(r.s, pair[1], pair[2]) = NoConnection
                     /\ r.s = [Session EXCEPT !.connections = [c \in DOMAIN connections \ {pair} |-> connections[c]]]

\* A disconnectAttr has just been refused while two ports are connected in one
\* direction only.
C3_Witness ==
    /\ last.op = "disconnectAttr" /\ last.err = "RuntimeError: no connection to disconnect"
    /\ \E src \in PortQueries, dst \in PortQueries :
          /\ Resolved(src, dst).err = "none"
          /\ Copies(connections, Resolved(src, dst).ret) = 0
          /\ Copies(connections, Resolved(dst, src).ret) = 1

\* The nodes that were created and are no longer stored.
DeletedNodes == (1..Len(nodeName)) \ Range(nodes)

\* Whether in session s the node n is gone: not stored, none of its ports stored,
\* none of its ports an endpoint of a connection or in a partner's connections.
Gone(s, n) ==
    /\ n \notin Range(s.nodes)
    /\ \A p \in Range(s.ports) : s.portNode[p] # n
    /\ \A c \in DOMAIN s.connections : s.portNode[c[1]] # n /\ s.portNode[c[2]] # n
    /\ \A p \in Range(s.ports) :
          /\ \A c \in get_port_input_connections(s, p) : s.portNode[c[1]] # n
          /\ \A c \in get_port_output_connections(s, p) : s.portNode[c[2]] # n

\* C4: a delete that succeeds leaves the node gone, and a deleted node stays gone
\* in every later state.
C4_DeletedNodeIsGone ==
    /\ \A n \in DeletedNodes : Gone(Session, n)
    /\ \A name \in NodeNames :
          LET r == delete(Session, name)
          IN  r.err = "none" => Gone(r.s, get_node_by_name(Session, name).ret)

\* A delete has just removed a node and, with its ports, a connection to a port
\* that is still stored.
C4_Witness ==
    /\ last.op = "delete" /\ last.err = "none" /\ last.dropped > 0
    /\ ports # <<>>

\* C5: a deleteAttr that removes a port leaves it off its node and out of every
\* connection, and in every reachable state both endpoints of every connection
\* are stored ports of stored nodes.
C5_NoDanglingConnection ==
    /\ \A c \in DOMAIN connections : \A i \in {1, 2} :
          c[i] \in Range(ports) /\ portNode[c[i]] \in Range(nodes)
    /\ \A q \in PortQueries :
          LET p == get_port_by_match(Session, q).ret
              r == deleteAttr(Session, <<q>>, None)
          IN  p # 0 =>
                /\ r.err = "none"
                /\ p \notin Range(ports_by_node(r.s, portNode[p]))
                /\ p \notin Range(r.s.ports)
                /\ \A c \in DOMAIN r.s.connections : c[1] # p /\ c[2] # p

\* A deleteAttr has just removed a port and a connection with it.
C5_Witness ==
    /\ last.op = "deleteAttr" /\ last.err = "none" /\ last.dropped > 0

\* The connections of session s that have a port of node n as an endpoint.
ConnectionsOf(s, n) ==
    {c \in DOMAIN s.connections : s.portNode[c[1]] = n \/ s.portNode[c[2]] = n}

\* Whether delete, ending as r on the node d, has kept the child c of d: c is
\* stored, a root node, with the ports it had, and with each of the connections
\* `kept`.
ChildKept(r, d, c, kept) ==
    /\ c \in Range(r.s.nodes)
    /\ r.s.nodeParent[c] = 0
    /\ dagpath(r.s, c) = <<"|">> \o nodeName[c]
    /\ ports_by_node(r.s, c) = ports_by_node(Session, c)
    /\ \A conn \in kept : Copies(r.s.connections, conn) = Copies(connections, conn)

\* C11: delete of a stored node raises no error, and every child of the node is
\* still stored afterwards, as a root node without a parent, with its ports and
\* with every connection of its ports that does not end on a port of the
\* deleted node.
C11_DeleteKeepsChildren ==
    \A name \in NodeNames :
        LET nr == get_node_by_name(Session, name)
            r == delete(Session, name)
        IN  nr.err = "none" =>
              /\ r.err = "none"
              /\ \A c \in Children(Session, nr.ret) \ {nr.ret} :
                    ChildKept(r, nr.ret, c, ConnectionsOf(Session, c) \ ConnectionsOf(Session, nr.ret))

\* C11 as stated: the children keep all of their connections, those to the ports
\* of the deleted node too.
C11_AsStated ==
    \A name \in NodeNames :
        LET nr == get_node_by_name(Session, name)
            r == delete(Session, name)
        IN  nr.err = "none" =>
              /\ r.err = "none"
              /\ \A c \in Children(Session, nr.ret) \ {nr.ret} :
                    ChildKept(r, nr.ret, c, ConnectionsOf(Session, c))

\* A delete has just left a child of the deleted node without its parent, and a
\* port of a stored root node is still connected.
C11_Witness ==
    /\ last.op = "delete" /\ last.err = "none" /\ last.orphaned > 0
    /\ \E n \in Range(nodes) : nodeParent[n] = 0 /\ ConnectionsOf(Session, n) # {}

\* ------------------------------------------------------------------ ports
\* Whether addAttr's names collide with a port of node n of the session.
Collides(n, longName, shortName) ==
    LET own == Range(ports_by_node(Session, n))
        name == IF ~Falsy(longName) THEN longName ELSE shortName
    IN  \/ \E p \in own : portName[p] = name
        \/ shortName # None /\ \E p \in own : portShort[p] = shortName

\* C10: in every reachable state no two ports of a node share a name or a short
\* name, and addAttr with a name that a target node already has raises the
\* name-collision error and adds no port to that node.
C10_PortNamesUnique ==
    /\ \A p \in Range(ports), q \in Range(ports) :
          (p # q /\ portNode[p] = portNode[q]) =>
              /\ portName[p] # portName[q]
              /\ (portShort[p] # None /\ portShort[q] # None) => portShort[p] # portShort[q]
    /\ \A objects \in Lists2(NodeNames), longName \in PortNames \cup {None, <<>>}, shortName \in ShortNames \cup {None} :
          \A i \in 1..Len(objects) :
              LET n == get_node_by_match(Session, objects[i]).ret
                  r == addAttr(Session, objects, longName, shortName)
              IN  ( /\ \A j \in 1..Len(objects) : get_node_by_match(Session, objects[j]).ret # 0
                    /\ ~Falsy(longName) \/ ~Falsy(shortName)
                    /\ Collides(n, longName, shortName) )
                  => /\ r.err = "NameCollision"
                     /\ ports_by_node(r.s, n) = ports_by_node(Session, n)

\* An addAttr has just been refused for a short name that a port of another long
\* name bears on the node.
C10_Witness ==
    /\ last.op = "addAttr" /\ last.err = "NameCollision"
    /\ \E p \in Range(ports) : portShort[p] # None /\ portShort[p] # portName[p]

\* ------------------------------------------------------------------ names and patterns
Has(s, c) == \E i \in 1..Len(s) : s[i] = c

StartsWith(s, pre) == Len(pre) <= Len(s) /\ SubSeq(s, 1, Len(pre)) = pre

\* The last name of a dag path: what follows its last hierarchy separator.
LastSegment(path) ==
    LET seps == {i \in 1..Len(path) : path[i] = "|"}
        from == IF seps = {} THEN 1 ELSE (CHOOSE i \in seps : \A j \in seps : j <= i) + 1
    IN  SubSeq(path, from, Len(path))

\* What of a pattern precedes its first wildcard.
LiteralPrefix(pattern) ==
    LET stars == {i \in 1..Len(pattern) : pattern[i] = "*"}
    IN  IF stars = {} THEN pattern ELSE SubSeq(pattern, 1, Min(stars) - 1)

\* Whether the pattern is the whole path, or what follows one of its separators.
IsSegmentSuffix(pattern, path) ==
    \/ path = pattern
    \/ \E k \in 1..Len(path) : path[k] = "|" /\ SubSeq(path, k + 1, Len(path)) = pattern

\* C14: the wildcard stands for one or more word characters: a pattern p* of a
\* name p does not match a path whose last name is exactly p, and the wildcard does not
\* match across a hierarchy separator, so that a pattern of one name matches
\* within the last name of the path only.
C14_StarIsOneOrMore ==
    outcome.op = "match" =>
        /\ ( /\ text # <<>> /\ text[Len(text)] = "*"
             /\ LET p == SubSeq(text, 1, Len(text) - 1)
                IN  p # <<>> /\ ~Has(p, "*") /\ ~Has(p, "|") /\ LastSegment(subject) = p )
           => outcome.ret = FALSE
        /\ (~Has(text, "|") /\ outcome.ret = TRUE)
           => StartsWith(LastSegment(subject), LiteralPrefix(text))

\* C15: an absolute pattern without wildcards matches the path equal to it, and
\* matches a path only from the start of the path on.
C15_AbsoluteIsAnchored ==
    (outcome.op = "match" /\ text # <<>> /\ Head(text) = "|" /\ ~Has(text, "*")) =>
        /\ subject = text => outcome.ret = TRUE
        /\ outcome.ret = TRUE => StartsWith(subject, text)

\* C16: a relative pattern without wildcards matches a path exactly when it is
\* the whole path or all that follows one of the separators of the path.
C16_RelativeIsSegmentSuffix ==
    (outcome.op = "match" /\ (text = <<>> \/ Head(text) # "|") /\ ~Has(text, "*")) =>
        outcome.ret = IsSegmentSuffix(text, subject)

\* The relative pattern a|b has just matched the path of a node b whose parent a
\* has a parent of its own.
C16_Witness ==
    /\ outcome.op = "match" /\ outcome.ret = TRUE
    /\ text = <<"a", "|", "b">>
    /\ subject = <<"|", "b", "|", "a", "|", "b">>

\* C17: is_valid_node_name is true exactly for the names that are not empty, do
\* not start with a digit and are not reserved.
C17_ValidNameRule ==
    outcome.op = "is_valid_node_name" =>
        outcome.ret = (text # <<>> /\ Head(text) \notin Digits /\ text \notin BLACKLISTED_NODE_NAMES)

\* C18: the result of conform_node_name has word characters only, does not start
\* with a digit, and is conformed to itself.
C18_ConformedIsClean ==
    outcome.op = "conform_node_name" =>
        /\ \A i \in 1..Len(outcome.ret) : IsWordChar(outcome.ret[i])
        /\ outcome.ret = <<>> \/ Head(outcome.ret) \notin Digits
        /\ conform_node_name(outcome.ret) = outcome.ret

\* ------------------------------------------------------------------ hierarchy
\* C6: in every reachable state no two stored nodes under the same parent, or
\* both without a parent, have the same name.
C6_SiblingNamesUnique ==
    \A n \in Range(nodes), m \in Range(nodes) :
        (n # m /\ nodeParent[n] = nodeParent[m]) => nodeName[n] # nodeName[m]

\* The node a parent argument of createNode resolves to, 0 for no parent.
ResolvedParent(p) == IF p = None THEN Ok(Session, 0) ELSE get_node_by_match(Session, p)

\* C7: under a parent that createNode resolves (or under none), createNode of two
\* different valid names that no child of the parent bears succeeds twice, and
\* createNode of the first name once more raises the name-collision error and
\* leaves the session, its nodes and its selection, as it was.
C7_SecondCreateCollides ==
    \A n1 \in NodeNames, n2 \in NodeNames, p \in ParentInputs, skipSelect \in BOOLEAN, qualified \in BOOLEAN :
        LET pr == ResolvedParent(p)
            r1 == createNode(Session, TRANSFORM, n1, p, skipSelect, qualified)
            r2 == createNode(r1.s, TRANSFORM, n2, p, skipSelect, qualified)
            r3 == createNode(r2.s, TRANSFORM, n1, p, skipSelect, qualified)
        IN  ( /\ n1 # n2
              /\ is_valid_node_name(n1) /\ is_valid_node_name(n2)
              /\ pr.err = "none" /\ (p # None => pr.ret # 0)
              /\ \A c \in Children(Session, pr.ret) : nodeName[c] \notin {n1, n2} )
            => /\ r1.err = "none" /\ Len(r1.s.nodes) = Len(nodes) + 1
               /\ r2.err = "none" /\ Len(r2.s.nodes) = Len(nodes) + 2
               /\ r3 = Raise(r2.s, "NameCollision")

\* A createNode has just been refused for its name while two nodes of different
\* names are stored side by side.
C7_Witness ==
    /\ last.op = "createNode" /\ last.err = "NameCollision"
    /\ \E n \in Range(nodes), m \in Range(nodes) :
          nodeName[n] # nodeName[m] /\ nodeParent[n] = nodeParent[m]

\* C12: parent(objects, world=True) on names that are all names of stored nodes
\* ends without error, and each of the named nodes is then a root node without
\* a parent.
C12_ParentWorldUnparents ==
    \A objects \in Lists2(NodeNames) \ {<<>>} :
        LET r == parent(Session, objects, TRUE)
        IN  (\A i \in 1..Len(objects) : get_node_by_name(Session, objects[i]).err = "none")
            => /\ r.err = "none"
               /\ \A i \in 1..Len(objects) :
                     LET n == get_node_by_name(Session, objects[i]).ret
                     IN  r.s.nodeParent[n] = 0 /\ dagpath(r.s, n) = <<"|">> \o nodeName[n]

\* C13: select replaces the selection by the stored nodes it names; a createNode
\* that succeeds without skipSelect leaves exactly the new node selected, and one
\* with skipSelect leaves the selection as it was.
C13_SelectionFollowsCreateNode ==
    /\ \A names \in Lists2(NodeNames) :
          Range(select(Session, names).s.selection) = {n \in Range(nodes) : nodeName[n] \in Range(names)}
    /\ \A name \in NameInputs, p \in ParentInputs, qualified \in BOOLEAN :
          LET shown == createNode(Session, TRANSFORM, name, p, FALSE, qualified)
              skipped == createNode(Session, TRANSFORM, name, p, TRUE, qualified)
          IN  /\ shown.err = "none" => shown.s.selection = <<Len(nodeName) + 1>>
              /\ skipped.err = "none" => skipped.s.selection = selection

\* C19: in every reachable state every selected node is a stored node, and ls
\* with selection=true lists stored nodes only.
C19_SelectionIsStored ==
    /\ Range(selection) \subseteq Range(nodes)
    /\ \A pattern \in NodeNames \cup {None} :
          LET r == ls(Session, IF pattern = None THEN <<>> ELSE <<pattern>>, TRUE, TRUE, None, FALSE)
          IN  r.err = "none" =>
                \A i \in 1..Len(r.ret) : \E n \in Range(nodes) \cap Range(selection) :
                    r.ret[i] = dagpath(Session, n)

\* The parents of a node, its parent first, as far as `fuel` steps lead.
RECURSIVE AncestorsWithin(_, _)
AncestorsWithin(n, fuel) ==
    IF fuel = 0 \/ nodeParent[n] = 0 THEN <<>>
    ELSE <<nodeParent[n]>> \o AncestorsWithin(nodeParent[n], fuel - 1)

Ancestors(n) == AncestorsWithin(n, Len(nodeName))

\* The names of a sequence of nodes, each led by the hierarchy separator.
RECURSIVE JoinNames(_)
JoinNames(q) == IF q = <<>> THEN <<>> ELSE <<"|">> \o nodeName[Head(q)] \o JoinNames(Tail(q))

Reverse(q) == [i \in 1..Len(q) |-> q[Len(q) + 1 - i]]

\* C8: in every reachable state the ancestors of every stored node end in a root
\* node, its path is the names from that root down to the node joined by the
\* separator, and ls with long=true returns these paths.
C8_PathIsAncestorChain ==
    /\ \A n \in Range(nodes) :
          /\ n \notin Range(Ancestors(n))
          /\ dagpath(Session, n) = JoinNames(Reverse(Ancestors(n)) \o <<n>>)
    /\ \A pattern \in NodeNames \cup {None} :
          LET r == ls(Session, IF pattern = None THEN <<>> ELSE <<pattern>>, TRUE, FALSE, None, FALSE)
          IN  /\ r.err = "none"
              /\ \A i \in 1..Len(r.ret) : \E n \in Range(nodes) :
                    r.ret[i] = JoinNames(Reverse(Ancestors(n)) \o <<n>>)

\* C9: in every reachable state the hierarchy is a forest: the parent of a stored
\* node is a stored node or none, and no node is among its own ancestors.
C9_HierarchyIsForest ==
    \A n \in Range(nodes) :
        /\ nodeParent[n] = 0 \/ nodeParent[n] \in Range(nodes)
        /\ n \notin Range(Ancestors(n))

====
